---- MODULE Spec2Model ----
(***************************************************************************)
(* Model of s3update (src/s3update.go): one synchronous check-and-update   *)
(* cycle of a running executable against an S3 bucket.                     *)
(*                                                                         *)
(* A Go string is a sequence of tokens.  Version strings and the bodies    *)
(* of the VERSION and checksum objects are sequences of one-character      *)
(* tokens, so that trimming, parsing and comparing them is computed, not   *)
(* assumed.  Key templates and URLs are sequences of longer tokens.        *)
(***************************************************************************)
EXTENDS Integers, Sequences, FiniteSets, TLC

(***************************************************************************)
(* Characters                                                              *)
(***************************************************************************)
Ascii == <<"\n", " ", "+", "-", ".", "0", "1", "2", "3", "4", "5", "6", "7",
           "8", "9", "a", "b", "c", "g", "r", "v">>

Ord(c) == CHOOSE i \in 1..Len(Ascii) : Ascii[i] = c

Digits == {"0", "1", "2", "3", "4", "5", "6", "7", "8", "9"}

Letters == {"a", "b", "c", "g", "r", "v"}

Spaces == {"\n", " "}

Tail2(s, i) == SubSeq(s, i, Len(s))

\* Go's string order: bytewise lexicographic, x < y.
RECURSIVE StrLess(_, _)
StrLess(x, y) ==
  IF y = <<>> THEN FALSE
  ELSE IF x = <<>> THEN TRUE
  ELSE IF x[1] # y[1] THEN Ord(x[1]) < Ord(y[1])
  ELSE StrLess(Tail(x), Tail(y))

\* strings.TrimSpace
RECURSIVE TrimLeft(_)
TrimLeft(s) ==
  IF s # <<>> /\ s[1] \in Spaces THEN TrimLeft(Tail(s)) ELSE s

RECURSIVE TrimRight(_)
TrimRight(s) ==
  IF s # <<>> /\ s[Len(s)] \in Spaces THEN TrimRight(SubSeq(s, 1, Len(s) - 1))
  ELSE s

TrimSpace(s) == TrimRight(TrimLeft(s))

(***************************************************************************)
(* golang.org/x/mod/semver, as called from s3update.go                     *)
(***************************************************************************)
\* Length of the longest prefix of s whose characters are all in set.
RECURSIVE PrefixLen(_, _)
PrefixLen(s, set) ==
  IF s # <<>> /\ s[1] \in set THEN 1 + PrefixLen(Tail(s), set) ELSE 0

\* Index of the first occurrence of c in s, Len(s) + 1 when there is none.
RECURSIVE IndexOf(_, _)
IndexOf(s, c) ==
  IF s = <<>> \/ s[1] = c THEN 1 ELSE 1 + IndexOf(Tail(s), c)

\* semver.parseInt: a run of digits without a leading zero.
parseInt(v) ==
  LET i == PrefixLen(v, Digits)
  IN  IF i = 0 \/ (v[1] = "0" /\ i # 1)
      THEN [t |-> <<>>, rest |-> v, ok |-> FALSE]
      ELSE [t |-> SubSeq(v, 1, i), rest |-> Tail2(v, i + 1), ok |-> TRUE]

isNum(id) == id # <<>> /\ PrefixLen(id, Digits) = Len(id)

isBadNum(id) == isNum(id) /\ Len(id) > 1 /\ id[1] = "0"

\* The dot-separated identifiers of s are all non-empty and, with
\* numeric set, none is a number with a leading zero.
RECURSIVE IdentsOk(_, _)
IdentsOk(s, numeric) ==
  LET i == IndexOf(s, ".")
      id == SubSeq(s, 1, i - 1)
  IN  /\ id # <<>>
      /\ ~(numeric /\ isBadNum(id))
      /\ i > Len(s) \/ IdentsOk(Tail2(s, i + 1), numeric)

IdentChars == Digits \cup Letters \cup {"-"}

\* semver.parsePrerelease: v starts with "-"; the prerelease runs to the
\* first "+" or to the end.
parsePrerelease(v) ==
  LET i == IndexOf(v, "+")
      body == SubSeq(v, 2, i - 1)
  IN  IF PrefixLen(body, IdentChars \cup {"."}) = Len(body) /\ IdentsOk(body, TRUE)
      THEN [t |-> SubSeq(v, 1, i - 1), rest |-> Tail2(v, i), ok |-> TRUE]
      ELSE [t |-> <<>>, rest |-> v, ok |-> FALSE]

\* semver.parseBuild: v starts with "+"; the build runs to the end.
parseBuild(v) ==
  LET body == Tail(v)
  IN  IF PrefixLen(body, IdentChars \cup {"."}) = Len(body) /\ IdentsOk(body, FALSE)
      THEN [t |-> v, rest |-> <<>>, ok |-> TRUE]
      ELSE [t |-> <<>>, rest |-> v, ok |-> FALSE]

Unparsed == [major |-> <<>>, minor |-> <<>>, patch |-> <<>>,
             prerelease |-> <<>>, ok |-> FALSE]

\* semver.parse: "v" MAJOR [ "." MINOR [ "." PATCH [ "-" PRE ] [ "+" BUILD ] ] ]
parse(v) ==
  IF v = <<>> \/ v[1] # "v" THEN Unparsed
  ELSE LET ma == parseInt(Tail(v)) IN
  IF ~ma.ok THEN Unparsed
  ELSE IF ma.rest = <<>>
       THEN [major |-> ma.t, minor |-> <<"0">>, patch |-> <<"0">>,
             prerelease |-> <<>>, ok |-> TRUE]
  ELSE IF ma.rest[1] # "." THEN Unparsed
  ELSE LET mi == parseInt(Tail(ma.rest)) IN
  IF ~mi.ok THEN Unparsed
  ELSE IF mi.rest = <<>>
       THEN [major |-> ma.t, minor |-> mi.t, patch |-> <<"0">>,
             prerelease |-> <<>>, ok |-> TRUE]
  ELSE IF mi.rest[1] # "." THEN Unparsed
  ELSE LET pa == parseInt(Tail(mi.rest)) IN
  IF ~pa.ok THEN Unparsed
  ELSE LET pre == IF pa.rest # <<>> /\ pa.rest[1] = "-"
                  THEN parsePrerelease(pa.rest)
                  ELSE [t |-> <<>>, rest |-> pa.rest, ok |-> TRUE] IN
  IF ~pre.ok THEN Unparsed
  ELSE LET bld == IF pre.rest # <<>> /\ pre.rest[1] = "+"
                  THEN parseBuild(pre.rest)
                  ELSE [t |-> <<>>, rest |-> pre.rest, ok |-> TRUE] IN
  IF ~bld.ok \/ bld.rest # <<>> THEN Unparsed
  ELSE [major |-> ma.t, minor |-> mi.t, patch |-> pa.t,
        prerelease |-> pre.t, ok |-> TRUE]

\* semver.IsValid
IsValid(v) == parse(v).ok

\* semver.compareInt: decimal strings without leading zeros.
compareInt(x, y) ==
  IF x = y THEN 0
  ELSE IF Len(x) < Len(y) THEN -1
  ELSE IF Len(x) > Len(y) THEN 1
  ELSE IF StrLess(x, y) THEN -1 ELSE 1

\* semver.comparePrerelease: x and y are "" or start with "-".
RECURSIVE comparePrerelease(_, _)
comparePrerelease(x, y) ==
  IF x = y THEN 0
  ELSE IF x = <<>> THEN 1
  ELSE IF y = <<>> THEN -1
  ELSE LET xs == Tail(x)
           ys == Tail(y)
           ix == IndexOf(xs, ".")
           iy == IndexOf(ys, ".")
           dx == SubSeq(xs, 1, ix - 1)
           dy == SubSeq(ys, 1, iy - 1)
           rx == Tail2(xs, ix)
           ry == Tail2(ys, iy)
       IN  IF dx # dy
           THEN IF isNum(dx) # isNum(dy)
                THEN (IF isNum(dx) THEN -1 ELSE 1)
                ELSE IF isNum(dx) /\ Len(dx) < Len(dy) THEN -1
                ELSE IF isNum(dx) /\ Len(dx) > Len(dy) THEN 1
                ELSE IF StrLess(dx, dy) THEN -1 ELSE 1
           ELSE IF rx # <<>> /\ ry # <<>> THEN comparePrerelease(rx, ry)
           ELSE IF rx = <<>> THEN -1 ELSE 1

\* semver.Compare: an invalid version orders before every valid one.
Compare(v, w) ==
  LET pv == parse(v)
      pw == parse(w)
  IN  IF ~pv.ok /\ ~pw.ok THEN 0
      ELSE IF ~pv.ok THEN -1
      ELSE IF ~pw.ok THEN 1
      ELSE IF compareInt(pv.major, pw.major) # 0 THEN compareInt(pv.major, pw.major)
      ELSE IF compareInt(pv.minor, pw.minor) # 0 THEN compareInt(pv.minor, pw.minor)
      ELSE IF compareInt(pv.patch, pw.patch) # 0 THEN compareInt(pv.patch, pw.patch)
      ELSE comparePrerelease(pv.prerelease, pw.prerelease)

(***************************************************************************)
(* Strings of the configuration, URLs and errors                           *)
(***************************************************************************)
MaxMinor == 10

\* Decimal digits of n < 100.
Dec(n) ==
  LET d(k) == Ascii[6 + k]
  IN  IF n < 10 THEN <<d(n)>> ELSE <<d(n \div 10), d(n % 10)>>

Ver(minor) == <<"v", "1", ".">> \o Dec(minor) \o <<".", "0">>

ReleaseVersions == {Ver(m) : m \in 9..MaxMinor}

\* What the host program may have been built with as its version.
LocalVersions ==
  ReleaseVersions \cup
  { Ver(MaxMinor) \o <<"-", "r", "c">>, <<"v", "1">>, Tail(Ver(9)), <<>> }

\* What the VERSION object of the bucket may hold.
RemoteBodies ==
  ReleaseVersions \cup
  { Ver(MaxMinor) \o <<"\n">>,
    <<" ">> \o Ver(MaxMinor) \o <<"-", "r", "c", "\n">>,
    Ver(9) \o <<"+", "b">>,
    <<"g", "a", "r", "b", "a", "g", "a">>,
    Tail(Ver(MaxMinor)),
    <<"\n">> }

GOOS == "linux"

GOARCH == "amd64"

KeyRaw == <<"mytool/mytool-", "{{OS}}", "-", "{{ARCH}}">>

KeyTgz == <<"mytool/mytool-", "{{VERSION}}", ".tgz">>

KeySum == <<"mytool/mytool-", "{{VERSION}}", ".md5">>

\* The Updater values a caller may pass (src/s3update.go:24).
Updaters ==
  [ CurrentVersion : LocalVersions,
    S3VersionKey   : {<<>>, <<"mytool/VERSION">>},
    ChecksumKey    : {<<>>, KeySum},
    S3Bucket       : {<<>>, <<"mybucket">>},
    S3ReleaseKey   : {<<>>, KeyRaw, KeyTgz},
    Verbose        : BOOLEAN ]

\* Values of the S3UPDATE_DISABLED environment variable.
EnvValues == {<<>>, <<"1">>, <<"false">>}

\* A nil error is the empty sequence; an error is its message.
Nil == <<>>

ErrTransport == <<"Get: dial tcp: connection refused">>

ErrLocate == <<"readlink: no such file or directory">>

ErrOpen == <<"open: permission denied">>

ErrCopy == <<"write: unexpected EOF">>

ErrRead == <<"read: input/output error">>

ErrGzip == <<"gzip: invalid header">>

ErrTarEOF == <<"EOF">>

ErrFileType == <<"gunzipping file: unknown file type">>

ErrChmod == <<"chmod: operation not permitted">>

ErrExec == <<"exec format error">>

\* Updater.validate
validate(cfg) ==
  IF cfg.CurrentVersion = <<>> THEN <<"no version set">>
  ELSE IF cfg.S3Bucket = <<>> THEN <<"no bucket set">>
  ELSE IF cfg.S3ReleaseKey = <<>> THEN <<"no s3ReleaseKey set">>
  ELSE IF cfg.S3VersionKey = <<>> THEN <<"no s3VersionKey set">>
  ELSE Nil

\* strings.Replace(s, old, new, -1) on a tokenised template.
RECURSIVE Replace(_, _, _)
Replace(s, old, new) ==
  IF s = <<>> THEN <<>>
  ELSE (IF s[1] = old THEN new ELSE <<s[1]>>) \o Replace(Tail(s), old, new)

generateURL(bucket, pathTemplate, version) ==
  LET p1 == Replace(pathTemplate, "{{VERSION}}", version)
      p2 == Replace(p1, "{{ARCH}}", <<GOARCH>>)
      p3 == Replace(p2, "{{OS}}", <<GOOS>>)
  IN  <<"https://">> \o bucket \o <<".s3.amazonaws.com/">> \o p3

VersionURL(bucket) == <<"https://">> \o bucket \o <<".s3.amazonaws.com/VERSION">>

\* strings.HasSuffix(url, ".tgz")
HasTgzSuffix(url) == url # <<>> /\ url[Len(url)] = ".tgz"

\* Faulty variant: fetchRemoteVersion without its validity test.
fetchRemoteVersionUnchecked(body) == [v |-> TrimSpace(body), err |-> Nil]

\* fetchRemoteVersion, after the body was read.
fetchRemoteVersion(body) ==
  LET rv == TrimSpace(body)
  IN  IF IsValid(rv) = FALSE
      THEN [v |-> <<>>, err |-> <<"remote version is invalid: ">> \o rv]
      ELSE [v |-> rv, err |-> Nil]

\* Faulty variant: the comparison taken as "not newer" instead of "older".
NeedsUpdateNotNewer(localVersion, rv) == Compare(localVersion, rv) # 1

\* semver.Compare(localVersion, remoteVersion) == -1
NeedsUpdate(localVersion, rv) == Compare(localVersion, rv) = -1

(***************************************************************************)
(* File contents                                                           *)
(***************************************************************************)
\* "orig" is the running executable, "newbin" a released executable, the
\* "tgz..." contents gzip streams of a tar archive whose first entry is a
\* regular file holding "newbin", a directory, or missing.
Artifacts == {"newbin", "tgzreg", "tgzdir", "tgzeof"}

IsGzip(c) == c \in {"tgzreg", "tgzdir", "tgzeof"}

TarTypeflag(c) ==
  CASE c = "tgzreg" -> "TypeReg"
    [] c = "tgzdir" -> "TypeDir"
    [] OTHER -> "EOF"

TarData(c) == IF c = "tgzreg" THEN "newbin" ELSE "empty"

\* hex.EncodeToString(md5(c)): lowercase hex, one token.
Md5Hex(c) ==
  CASE c = "orig" -> "5d41402abc4b2a76"
    [] c = "newbin" -> "7d793037a0760186"
    [] c = "tgzreg" -> "9e107d9d372bb682"
    [] c = "tgzdir" -> "e4d909c290d0fb1c"
    [] c = "tgzeof" -> "1f3870be274f6c49"
    [] c = "partial" -> "c3fcd3d76192e400"
    [] OTHER -> "d41d8cd98f00b204"

\* What the checksum object may hold for artifact a.
ChecksumBodies(a) ==
  { <<Md5Hex(a)>>, <<Md5Hex(a), "\n">>, <<Md5Hex("orig")>> }

\* The objects of the bucket: the VERSION body, the artifact and the
\* checksum body.
Stores ==
  UNION { [version : RemoteBodies, artifact : {a}, checksum : ChecksumBodies(a)] :
            a \in Artifacts }

(***************************************************************************)
(* State                                                                   *)
(***************************************************************************)
\* The instances of the host program that share the executable's path.
Procs == {"a", "b"}

VARIABLES
  S3UPDATE_DISABLED, \* [Procs -> the environment variable's value]
  u,                 \* [Procs -> the Updater passed to AutoUpdate]
  remote,            \* the bucket's objects
  dir,               \* the directory: existing path -> inode number
  inode,             \* inode number -> [data, exec]
  pc,                \* [Procs -> position in AutoUpdate]
  ret,               \* [Procs -> the error AutoUpdate returned]
  remoteVersion,     \* [Procs -> runAutoUpdate's remoteVersion]
  resp,              \* [Procs -> the artifact response body]
  checksumRespBody,  \* [Procs -> downloadUpdate's checksumRespBody]
  f,                 \* [Procs -> inode of the open file f (w in untgzFile)]
  data,              \* [Procs -> untgzFile's data]
  cause,             \* [Procs -> the error a restore is about to return]
  trace,             \* [Procs -> the steps taken so far, with their results]
  net,               \* [Procs -> the HTTP requests made so far]
  started            \* [Procs -> how often the program was started, and the
                     \*           files as they were at its last start]

vars == <<S3UPDATE_DISABLED, u, remote, dir, inode, pc, ret, remoteVersion,
          resp, checksumRespBody, f, data, cause, trace, net, started>>

\* What no step of AutoUpdate changes.
inputs == <<S3UPDATE_DISABLED, u, remote, started>>

files == <<dir, inode>>

locals == <<remoteVersion, resp, checksumRespBody, f, data>>

Target == "target"

\* backup := target + ".bak"
Backup == "target.bak"

Exists(path) == path \in DOMAIN dir

\* The content at path, "absent" when there is no such file.
Content(path) == IF Exists(path) THEN inode[dir[path]].data ELSE "absent"

FreshInode == Len(inode) + 1

\* os.Rename(from, to) on directory d; a missing source changes nothing.
Rename(d, from, to) ==
  IF from \in DOMAIN d
  THEN [q \in (DOMAIN d \ {from}) \cup {to} |-> IF q = to THEN d[from] ELSE d[q]]
  ELSE d

\* os.Remove(path) on directory d.
Unlink(d, path) == [q \in DOMAIN d \ {path} |-> d[q]]

Ev(op, ok) == [op |-> op, ok |-> ok]

Log(p, op, ok) == [trace EXCEPT ![p] = Append(@, Ev(op, ok))]

Did(p, op) == \E i \in 1..Len(trace[p]) : trace[p][i].op = op

DidOk(p, op) == \E i \in 1..Len(trace[p]) : trace[p][i] = Ev(op, TRUE)

Req(obj, url, ok) == [obj |-> obj, url |-> url, ok |-> ok]

downloadURL(p) == generateURL(u[p].S3Bucket, u[p].S3ReleaseKey, remoteVersion[p])

checksumURL(p) == generateURL(u[p].S3Bucket, u[p].ChecksumKey, remoteVersion[p])

InitWith(running) ==
  /\ S3UPDATE_DISABLED \in [Procs -> EnvValues]
  /\ u \in [Procs -> Updaters]
  /\ \A p \in Procs \ running :
       /\ S3UPDATE_DISABLED[p] = <<>>
       /\ u[p] = [CurrentVersion |-> <<>>, S3VersionKey |-> <<>>, ChecksumKey |-> <<>>,
                  S3Bucket |-> <<>>, S3ReleaseKey |-> <<>>, Verbose |-> FALSE]
  /\ remote \in Stores
  /\ dir = (Target :> 1)
  /\ inode = <<[data |-> "orig", exec |-> TRUE]>>
  /\ pc = [p \in Procs |-> IF p \in running THEN "start" ELSE "off"]
  /\ ret = [p \in Procs |-> Nil]
  /\ remoteVersion = [p \in Procs |-> <<>>]
  /\ resp = [p \in Procs |-> "none"]
  /\ checksumRespBody = [p \in Procs |-> <<>>]
  /\ f = [p \in Procs |-> 0]
  /\ data = [p \in Procs |-> "none"]
  /\ cause = [p \in Procs |-> Nil]
  /\ trace = [p \in Procs |-> <<>>]
  /\ net = [p \in Procs |-> <<>>]
  /\ started = [p \in Procs |-> [n |-> IF p \in running THEN 1 ELSE 0,
                                  dir |-> dir, inode |-> inode]]

\* A single instance of the program.
Init == InitWith({"a"})

(***************************************************************************)
(* AutoUpdate and runAutoUpdate                                            *)
(***************************************************************************)
\* AutoUpdate returns err to its caller.
Return(p, err) ==
  /\ pc' = [pc EXCEPT ![p] = "returned"]
  /\ ret' = [ret EXCEPT ![p] = err]

Goto(p, label) ==
  /\ pc' = [pc EXCEPT ![p] = label]
  /\ UNCHANGED ret

\* Faulty variant: runAutoUpdate exiting whatever downloadUpdate returned.
DownloadReturnExits(p, err) ==
  /\ pc' = [pc EXCEPT ![p] = "exited"]
  /\ UNCHANGED ret

\* runAutoUpdate after downloadUpdate returned err: the error is returned,
\* and on a nil error the process exits with status 0.
DownloadReturn(p, err) ==
  IF err # Nil
  THEN Return(p, err)
  ELSE /\ pc' = [pc EXCEPT ![p] = "exited"]
       /\ UNCHANGED ret

\* A failure of downloadUpdate that first renames the backup over the target.
Fail(p, err) ==
  /\ pc' = [pc EXCEPT ![p] = "restore"]
  /\ cause' = [cause EXCEPT ![p] = err]
  /\ UNCHANGED ret

\* Faulty variant: AutoUpdate validating before it reads the environment.
AutoUpdateValidatesFirst(p) ==
  /\ pc[p] = "start"
  /\ IF validate(u[p]) # Nil
     THEN Return(p, validate(u[p]))
     ELSE IF S3UPDATE_DISABLED[p] # <<>>
          THEN Return(p, Nil)
          ELSE Goto(p, "run")
  /\ UNCHANGED <<inputs, files, locals, cause, trace, net>>

\* if os.Getenv("S3UPDATE_DISABLED") != "" ...; u.validate(); runAutoUpdate(u)
AutoUpdate(p) ==
  /\ pc[p] = "start"
  /\ IF S3UPDATE_DISABLED[p] # <<>>
     THEN Return(p, Nil)
     ELSE IF validate(u[p]) # Nil
          THEN Return(p, validate(u[p]))
          ELSE Goto(p, "run")
  /\ UNCHANGED <<inputs, files, locals, cause, trace, net>>

\* Faulty variant: the remote version fetched before the local one is tested.
runAutoUpdateUnchecked(p) ==
  /\ pc[p] = "run"
  /\ Goto(p, "fetch")
  /\ UNCHANGED <<inputs, files, locals, cause, trace, net>>

\* if !semver.IsValid(localVersion) { return errors.New("invalid local version") }
runAutoUpdate(p) ==
  /\ pc[p] = "run"
  /\ IF ~IsValid(u[p].CurrentVersion)
     THEN Return(p, <<"invalid local version">>)
     ELSE Goto(p, "fetch")
  /\ UNCHANGED <<inputs, files, locals, cause, trace, net>>

\* remoteVersion, err := fetchRemoteVersion(u.S3Bucket)
FetchRemoteVersion(p) ==
  /\ pc[p] = "fetch"
  /\ \E ok \in BOOLEAN :
       /\ net' = [net EXCEPT ![p] = Append(@, Req("VERSION", VersionURL(u[p].S3Bucket), ok))]
       /\ IF ~ok
          THEN /\ Return(p, ErrTransport)
               /\ UNCHANGED remoteVersion
          ELSE LET r == fetchRemoteVersion(remote.version)
               IN  IF r.err # Nil
                   THEN /\ Return(p, r.err)
                        /\ UNCHANGED remoteVersion
                   ELSE /\ Goto(p, "compare")
                        /\ remoteVersion' = [remoteVersion EXCEPT ![p] = r.v]
  /\ UNCHANGED <<inputs, files, resp, checksumRespBody, f, data, cause, trace>>

\* Faulty variant: the download started whatever the comparison says.
CompareVersionsUnconditional(p) ==
  /\ pc[p] = "compare"
  /\ Goto(p, "get")
  /\ trace' = Log(p, "downloadUpdate", TRUE)
  /\ UNCHANGED <<inputs, files, locals, cause, net>>

\* if semver.Compare(localVersion, remoteVersion) == -1 { downloadUpdate(...) }
CompareVersions(p) ==
  /\ pc[p] = "compare"
  /\ IF NeedsUpdate(u[p].CurrentVersion, remoteVersion[p])
     THEN /\ Goto(p, "get")
          /\ trace' = Log(p, "downloadUpdate", TRUE)
     ELSE /\ Return(p, Nil)
          /\ UNCHANGED trace
  /\ UNCHANGED <<inputs, files, locals, cause, net>>

(***************************************************************************)
(* downloadUpdate                                                          *)
(***************************************************************************)
\* resp, err := http.Get(downloadURL)
GetArtifact(p) ==
  /\ pc[p] = "get"
  /\ \E ok \in BOOLEAN :
       /\ net' = [net EXCEPT ![p] = Append(@, Req("artifact", downloadURL(p), ok))]
       /\ IF ok
          THEN /\ Goto(p, "getsum")
               /\ resp' = [resp EXCEPT ![p] = remote.artifact]
          ELSE /\ DownloadReturn(p, ErrTransport)
               /\ UNCHANGED resp
  /\ UNCHANGED <<inputs, files, remoteVersion, checksumRespBody, f, data, cause, trace>>

\* Faulty variant: the replacement going on after a failed checksum request.
GetChecksumUnchecked(p) ==
  /\ pc[p] = "getsum"
  /\ \E ok \in BOOLEAN :
       /\ net' = [net EXCEPT ![p] = Append(@, Req("checksum", checksumURL(p), ok))]
       /\ Goto(p, "locate")
       /\ IF ok
          THEN checksumRespBody' = [checksumRespBody EXCEPT ![p] = remote.checksum]
          ELSE UNCHANGED checksumRespBody
  /\ UNCHANGED <<inputs, files, remoteVersion, resp, f, data, cause, trace>>

\* checksumResp, err := http.Get(checksumURL); ioutil.ReadAll(checksumResp.Body)
GetChecksum(p) ==
  /\ pc[p] = "getsum"
  /\ \E ok \in BOOLEAN :
       /\ net' = [net EXCEPT ![p] = Append(@, Req("checksum", checksumURL(p), ok))]
       /\ IF ok
          THEN /\ Goto(p, "locate")
               /\ checksumRespBody' = [checksumRespBody EXCEPT ![p] = remote.checksum]
          ELSE /\ DownloadReturn(p, ErrTransport)
               /\ UNCHANGED checksumRespBody
  /\ UNCHANGED <<inputs, files, remoteVersion, resp, f, data, cause, trace>>

\* os.Executable and filepath.EvalSymlinks: the latter fails on a path
\* that does not exist.
LocateTarget(p) ==
  /\ pc[p] = "locate"
  /\ \E ok \in BOOLEAN :
       IF ok /\ Exists(Target)
       THEN Goto(p, "stat")
       ELSE DownloadReturn(p, ErrLocate)
  /\ UNCHANGED <<inputs, files, locals, cause, trace, net>>

\* Faulty variant: the replacement going on whatever os.Stat reported.
StatTargetUnchecked(p) ==
  /\ pc[p] = "stat"
  /\ Goto(p, "backup")
  /\ trace' = Log(p, "stat", Exists(Target))
  /\ UNCHANGED <<inputs, files, locals, cause, net>>

\* _, err = os.Stat(target); if err != nil { return nil }
StatTarget(p) ==
  /\ pc[p] = "stat"
  /\ IF Exists(Target)
     THEN Goto(p, "backup")
     ELSE DownloadReturn(p, Nil)
  /\ trace' = Log(p, "stat", Exists(Target))
  /\ UNCHANGED <<inputs, files, locals, cause, net>>

\* Faulty variant: the backup step going on without having renamed.
BackupRenameOmitted(p) ==
  /\ pc[p] = "backup"
  /\ trace' = Log(p, "backup", Exists(Target))
  /\ Goto(p, "open")
  /\ UNCHANGED <<inputs, files, locals, cause, net>>

\* os.Rename(target, backup), its result dropped.
BackupRename(p) ==
  /\ pc[p] = "backup"
  /\ \E ok \in BOOLEAN :
       LET done == ok /\ Exists(Target)
       IN  /\ dir' = IF done THEN Rename(dir, Target, Backup) ELSE dir
           /\ trace' = Log(p, "backup", done)
  /\ Goto(p, "open")
  /\ UNCHANGED <<inputs, inode, locals, cause, net>>

\* os.OpenFile(path, O_RDWR|O_CREATE|O_TRUNC, perm): an existing file is
\* truncated, a missing one is created empty with mode perm.
Create(p, path, exec) ==
  IF Exists(path)
  THEN /\ inode' = [inode EXCEPT ![dir[path]].data = "empty"]
       /\ f' = [f EXCEPT ![p] = dir[path]]
       /\ UNCHANGED dir
  ELSE /\ inode' = Append(inode, [data |-> "empty", exec |-> exec])
       /\ dir' = [q \in DOMAIN dir \cup {path} |-> IF q = path THEN FreshInode ELSE dir[q]]
       /\ f' = [f EXCEPT ![p] = FreshInode]

\* f, err := os.OpenFile(target, os.O_RDWR|os.O_CREATE|os.O_TRUNC, 0755)
OpenTarget(p) ==
  /\ pc[p] = "open"
  /\ \E ok \in BOOLEAN :
       /\ trace' = Log(p, "open", ok)
       /\ IF ok
          THEN /\ Create(p, Target, TRUE)
               /\ Goto(p, "copy")
               /\ UNCHANGED cause
          ELSE /\ Fail(p, ErrOpen)
               /\ UNCHANGED <<files, f>>
  /\ UNCHANGED <<inputs, remoteVersion, resp, checksumRespBody, data, net>>

\* io.Copy(f, progressR): a failed copy leaves part of the body in the file.
CopyBody(p) ==
  /\ pc[p] = "copy"
  /\ \E ok \in BOOLEAN :
       /\ trace' = Log(p, "write", ok)
       /\ inode' = [inode EXCEPT ![f[p]].data = IF ok THEN resp[p] ELSE "partial"]
       /\ IF ok
          THEN Goto(p, "reopen") /\ UNCHANGED cause
          ELSE Fail(p, ErrCopy)
  /\ UNCHANGED <<inputs, dir, locals, net>>

\* f, err = os.Open(target); if err != nil { return err }
ReopenTarget(p) ==
  /\ pc[p] = "reopen"
  /\ \E ok \in BOOLEAN :
       LET opened == ok /\ Exists(Target)
       IN  /\ trace' = Log(p, "reopen", opened)
           /\ IF opened
              THEN /\ Goto(p, "digest")
                   /\ f' = [f EXCEPT ![p] = dir[Target]]
              ELSE /\ DownloadReturn(p, ErrOpen)
                   /\ UNCHANGED f
  /\ UNCHANGED <<inputs, files, remoteVersion, resp, checksumRespBody, data, cause, net>>

\* string(checksumRespBody) != hex.EncodeToString(h.Sum(nil))
Mismatch(body, hex) == body # <<hex>>

\* io.Copy(h, f), the comparison with the checksum, and the suffix test.
VerifyDigest(p) ==
  /\ pc[p] = "digest"
  /\ \E ok \in BOOLEAN :
       IF ~ok
       THEN /\ trace' = Log(p, "digest", FALSE)
            /\ Fail(p, ErrRead)
       ELSE IF Mismatch(checksumRespBody[p], Md5Hex(inode[f[p]].data))
       THEN /\ trace' = Log(p, "verify", FALSE)
            /\ Fail(p, remoteVersion[p] \o <<" checksum mismatch">>)
       ELSE /\ trace' = Log(p, "verify", TRUE)
            /\ Goto(p, IF HasTgzSuffix(downloadURL(p)) THEN "untgz" ELSE "chmod")
            /\ UNCHANGED cause
  /\ UNCHANGED <<inputs, files, locals, net>>

(***************************************************************************)
(* untgzFile(target)                                                       *)
(***************************************************************************)
\* The error of the reading part of untgzFile on a file holding c.
UntgzReadErr(c) ==
  IF ~IsGzip(c) THEN ErrGzip
  ELSE IF TarTypeflag(c) = "EOF" THEN ErrTarEOF
  ELSE IF TarTypeflag(c) # "TypeReg" THEN ErrFileType
  ELSE Nil

\* os.Open, gzip.NewReader, tr.Next, the type test and ioutil.ReadAll(tr).
UntgzRead(p) ==
  /\ pc[p] = "untgz"
  /\ \E ok \in BOOLEAN :
       LET opened == ok /\ Exists(Target)
           c == Content(Target)
       IN  IF ~opened
           THEN /\ trace' = Log(p, "extract", FALSE)
                /\ Fail(p, ErrOpen)
                /\ UNCHANGED <<f, data>>
           ELSE IF UntgzReadErr(c) # Nil
           THEN /\ trace' = Log(p, "extract", FALSE)
                /\ Fail(p, UntgzReadErr(c))
                /\ UNCHANGED <<f, data>>
           ELSE /\ data' = [data EXCEPT ![p] = TarData(c)]
                /\ f' = [f EXCEPT ![p] = dir[Target]]
                /\ Goto(p, "untgz.remove")
                /\ UNCHANGED <<cause, trace>>
  /\ UNCHANGED <<inputs, files, remoteVersion, resp, checksumRespBody, net>>

\* f.Close(); os.Remove(filename), its result dropped.
UntgzRemove(p) ==
  /\ pc[p] = "untgz.remove"
  /\ \E ok \in BOOLEAN :
       dir' = IF ok /\ Exists(Target) THEN Unlink(dir, Target) ELSE dir
  /\ Goto(p, "untgz.create")
  /\ UNCHANGED <<inputs, inode, locals, cause, trace, net>>

\* w, err := os.Create(filename)
UntgzCreate(p) ==
  /\ pc[p] = "untgz.create"
  /\ \E ok \in BOOLEAN :
       IF ok
       THEN /\ Create(p, Target, FALSE)
            /\ Goto(p, "untgz.write")
            /\ UNCHANGED <<cause, trace>>
       ELSE /\ trace' = Log(p, "extract", FALSE)
            /\ Fail(p, ErrOpen)
            /\ UNCHANGED <<files, f>>
  /\ UNCHANGED <<inputs, remoteVersion, resp, checksumRespBody, data, net>>

\* _, err = w.Write(data)
UntgzWrite(p) ==
  /\ pc[p] = "untgz.write"
  /\ \E ok \in BOOLEAN :
       /\ trace' = Log(p, "extract", ok)
       /\ inode' = [inode EXCEPT ![f[p]].data = IF ok THEN data[p] ELSE "partial"]
       /\ IF ok
          THEN Goto(p, "chmod") /\ UNCHANGED cause
          ELSE Fail(p, ErrCopy)
  /\ UNCHANGED <<inputs, dir, locals, net>>

(***************************************************************************)
(* downloadUpdate, after the verification                                  *)
(***************************************************************************)
\* Faulty variant: the permission step going on to the continuation with the backup still
\* in place.
ChmodSkipsCommit(p) ==
  /\ pc[p] = "chmod"
  /\ \E ok \in BOOLEAN :
       LET done == ok /\ Exists(Target)
       IN  /\ trace' = Log(p, "chmod", done)
           /\ IF done
              THEN /\ inode' = [inode EXCEPT ![dir[Target]].exec = TRUE]
                   /\ Goto(p, "exec")
                   /\ UNCHANGED cause
              ELSE /\ Fail(p, ErrChmod)
                   /\ UNCHANGED inode
  /\ UNCHANGED <<inputs, dir, locals, net>>

\* err = os.Chmod(target, 0755)
Chmod(p) ==
  /\ pc[p] = "chmod"
  /\ \E ok \in BOOLEAN :
       LET done == ok /\ Exists(Target)
       IN  /\ trace' = Log(p, "chmod", done)
           /\ IF done
              THEN /\ inode' = [inode EXCEPT ![dir[Target]].exec = TRUE]
                   /\ Goto(p, "commit")
                   /\ UNCHANGED cause
              ELSE /\ Fail(p, ErrChmod)
                   /\ UNCHANGED inode
  /\ UNCHANGED <<inputs, dir, locals, net>>

\* os.Remove(backup), its result dropped.
RemoveBackup(p) ==
  /\ pc[p] = "commit"
  /\ \E ok \in BOOLEAN :
       LET done == ok /\ Exists(Backup)
       IN  /\ dir' = IF done THEN Unlink(dir, Backup) ELSE dir
           /\ trace' = Log(p, "commit", done)
  /\ Goto(p, "exec")
  /\ UNCHANGED <<inputs, inode, locals, cause, net>>

\* return syscall.Exec(target, os.Args, os.Environ()): on success the
\* process image is replaced and nothing returns.
Exec(p) ==
  /\ pc[p] = "exec"
  /\ \E ok \in BOOLEAN :
       LET done == ok /\ Exists(Target) /\ inode[dir[Target]].exec
       IN  /\ trace' = Log(p, "exec", done)
           /\ IF done
              THEN /\ pc' = [pc EXCEPT ![p] = "execed"]
                   /\ UNCHANGED ret
              ELSE DownloadReturn(p, ErrExec)
  /\ UNCHANGED <<inputs, files, locals, cause, net>>

\* os.Rename(backup, target), its result dropped; return err
Restore(p) ==
  /\ pc[p] = "restore"
  /\ \E ok \in BOOLEAN :
       LET done == ok /\ Exists(Backup)
       IN  /\ dir' = IF done THEN Rename(dir, Backup, Target) ELSE dir
           /\ trace' = Log(p, "restore", done)
  /\ DownloadReturn(p, cause[p])
  /\ UNCHANGED <<inputs, inode, locals, cause, net>>

\* Something else removes the executable after the program located it and
\* before it looks at it.
ExternalRemove ==
  /\ \E p \in Procs : pc[p] \in {"locate", "stat"}
  /\ Exists(Target)
  /\ dir' = Unlink(dir, Target)
  /\ UNCHANGED <<inputs, inode, pc, ret, locals, cause, trace, net>>

\* The number of times the program is started (the first start and the
\* re-executions by syscall.Exec) in one behaviour.
MaxLaunches == 2

\* The image that syscall.Exec started runs the host program from its
\* beginning with the same arguments and environment, and so calls
\* AutoUpdate again.  The new binary reports the version it was released
\* as, or still the version of the binary it replaced.
Relaunch(p) ==
  /\ pc[p] = "execed"
  /\ started[p].n < MaxLaunches
  /\ \E v \in {remoteVersion[p], u[p].CurrentVersion} :
       u' = [u EXCEPT ![p].CurrentVersion = v]
  /\ started' = [started EXCEPT ![p] = [n |-> @.n + 1, dir |-> dir, inode |-> inode]]
  /\ pc' = [pc EXCEPT ![p] = "start"]
  /\ remoteVersion' = [remoteVersion EXCEPT ![p] = <<>>]
  /\ resp' = [resp EXCEPT ![p] = "none"]
  /\ checksumRespBody' = [checksumRespBody EXCEPT ![p] = <<>>]
  /\ f' = [f EXCEPT ![p] = 0]
  /\ data' = [data EXCEPT ![p] = "none"]
  /\ cause' = [cause EXCEPT ![p] = Nil]
  /\ trace' = [trace EXCEPT ![p] = <<>>]
  /\ net' = [net EXCEPT ![p] = <<>>]
  /\ UNCHANGED <<S3UPDATE_DISABLED, remote, files, ret>>

Step(p) ==
  \/ AutoUpdate(p)
  \/ runAutoUpdate(p)
  \/ FetchRemoteVersion(p)
  \/ CompareVersions(p)
  \/ GetArtifact(p)
  \/ GetChecksum(p)
  \/ LocateTarget(p)
  \/ StatTarget(p)
  \/ BackupRename(p)
  \/ OpenTarget(p)
  \/ CopyBody(p)
  \/ ReopenTarget(p)
  \/ VerifyDigest(p)
  \/ UntgzRead(p)
  \/ UntgzRemove(p)
  \/ UntgzCreate(p)
  \/ UntgzWrite(p)
  \/ Chmod(p)
  \/ RemoveBackup(p)
  \/ Exec(p)
  \/ Restore(p)

Next == (\E p \in Procs : Step(p)) \/ ExternalRemove

Spec == Init /\ [][Next]_vars

\* One update cycle followed by the cycles of the binaries it installs.
NextRelaunch == Next \/ \E p \in Procs : Relaunch(p)

SpecRelaunch == Init /\ [][NextRelaunch]_vars

\* Two instances of the same host program, started with the same
\* configuration against the same executable and the same bucket, which
\* holds a newer release with its digest.
TwoUpdaters ==
  { [CurrentVersion |-> Ver(9), S3VersionKey |-> <<"mytool/VERSION">>,
     ChecksumKey |-> KeySum, S3Bucket |-> <<"mybucket">>, S3ReleaseKey |-> k,
     Verbose |-> FALSE] : k \in {KeyRaw, KeyTgz} }

TwoStores ==
  { [version |-> Ver(MaxMinor), artifact |-> a, checksum |-> <<Md5Hex(a)>>] :
      a \in {"newbin", "tgzreg"} }

InitTwo ==
  /\ S3UPDATE_DISABLED = [p \in Procs |-> <<>>]
  /\ u \in [Procs -> TwoUpdaters]
  /\ u["a"] = u["b"]
  /\ remote \in TwoStores
  /\ InitWith(Procs)

NextTwo == \E p \in Procs : Step(p)

SpecTwo == InitTwo /\ [][NextTwo]_vars
(***************************************************************************)
(* Vocabulary of the properties                                            *)
(***************************************************************************)
Ops(p) == [i \in 1..Len(trace[p]) |-> trace[p][i].op]

Happened(p, op, ok) == \E i \in 1..Len(trace[p]) : trace[p][i] = Ev(op, ok)

Ended(p) == pc[p] \in {"returned", "exited", "execed"}

\* Neither the directory nor any file has changed since the start.
FilesUntouched ==
  /\ dir = (Target :> 1)
  /\ inode = <<[data |-> "orig", exec |-> TRUE]>>

\* The VERSION request of p was answered.
VersionFetched(p) == net[p] # <<>> /\ net[p][1] = Req("VERSION", VersionURL(u[p].S3Bucket), TRUE)

TrimmedRemote == TrimSpace(remote.version)

IsArchive(p) == HasTgzSuffix(downloadURL(p))

\* The executable that a successful update of p leaves at the target.
Installed(p) == IF IsArchive(p) THEN TarData(remote.artifact) ELSE remote.artifact

\* Semantic-version precedence (semver.org, item 11), on numbers and lists
\* of identifiers rather than on strings.
RECURSIVE Num(_)
Num(ds) == IF ds = <<>> THEN 0 ELSE 10 * Num(SubSeq(ds, 1, Len(ds) - 1)) + (Ord(ds[Len(ds)]) - 6)

RECURSIVE Split(_, _)
Split(s, sep) ==
  LET i == IndexOf(s, sep)
  IN  IF i > Len(s) THEN <<s>> ELSE <<SubSeq(s, 1, i - 1)>> \o Split(Tail2(s, i + 1), sep)

NoBuild(v) == SubSeq(v, 1, IndexOf(v, "+") - 1)

CoreNums(v) ==
  LET nb == NoBuild(v)
      parts == Split(SubSeq(nb, 2, IndexOf(nb, "-") - 1), ".")
  IN  [i \in 1..3 |-> IF i <= Len(parts) THEN Num(parts[i]) ELSE 0]

PreIds(v) ==
  LET nb == NoBuild(v)
      i == IndexOf(nb, "-")
  IN  IF i > Len(nb) THEN <<>> ELSE Split(Tail2(nb, i + 1), ".")

IdLess(a, b) ==
  IF isNum(a) /\ isNum(b) THEN Num(a) < Num(b)
  ELSE IF isNum(a) # isNum(b) THEN isNum(a)
  ELSE StrLess(a, b)

RECURSIVE PreLess(_, _)
PreLess(xs, ys) ==
  IF ys = <<>> THEN FALSE
  ELSE IF xs = <<>> THEN TRUE
  ELSE IF xs[1] # ys[1] THEN IdLess(xs[1], ys[1])
  ELSE PreLess(Tail(xs), Tail(ys))

Precedes(a, b) ==
  LET na == CoreNums(a)
      nb == CoreNums(b)
  IN  \/ na[1] < nb[1]
      \/ na[1] = nb[1] /\ na[2] < nb[2]
      \/ na[1] = nb[1] /\ na[2] = nb[2] /\ na[3] < nb[3]
      \/ /\ na = nb
         /\ PreIds(a) # <<>>
         /\ PreIds(b) = <<>> \/ PreLess(PreIds(a), PreIds(b))

(***************************************************************************)
(* C1                                                                      *)
(***************************************************************************)
\* C1: in every state of an update attempt after the target was found and
\* before the backup is deleted, whatever step failed or succeeded, the
\* original executable's content is at the target path or at the backup path.
C1_OriginalKept ==
  \A p \in Procs :
    Happened(p, "stat", TRUE) /\ ~Did(p, "commit")
      => Content(Target) = "orig" \/ Content(Backup) = "orig"

(***************************************************************************)
(* C2                                                                      *)
(***************************************************************************)
\* C2: an attempt that returns an error after the backup was created and before the
\* backup is deleted has performed the restore rename, and when that rename
\* succeeded the target holds the original and no backup file remains.
C2_FailureRestores ==
  \A p \in Procs :
    pc[p] = "returned" /\ Happened(p, "backup", TRUE) /\ ~Did(p, "commit")
      => /\ ret[p] # Nil
         /\ Did(p, "restore")
         /\ Happened(p, "restore", TRUE) => Content(Target) = "orig" /\ ~Exists(Backup)

(***************************************************************************)
(* C3                                                                      *)
(***************************************************************************)
\* C3: an attempt whose digest comparison failed has created the backup and
\* restored it, ends with the original content at the target, has neither
\* deleted the backup nor tried to continue as the new binary, and has
\* returned the checksum-mismatch error that carries the remote version.
C3_MismatchRollsBack ==
  \A p \in Procs :
    Ended(p) /\ Happened(p, "verify", FALSE)
      => /\ Precedes(u[p].CurrentVersion, remoteVersion[p])
         /\ Happened(p, "backup", TRUE)
         /\ Happened(p, "restore", TRUE)
         /\ Content(Target) = "orig"
         /\ ~Did(p, "commit")
         /\ ~Did(p, "exec")
         /\ pc[p] = "returned"
         /\ ret[p] = remoteVersion[p] \o <<" checksum mismatch">>

(***************************************************************************)
(* C4                                                                      *)
(***************************************************************************)
\* C4: the process ends or is replaced only after a new binary was written,
\* verified and committed; every other outcome returns to the caller.
C4_EndsOnlyAfterCommit ==
  \A p \in Procs :
    pc[p] \in {"exited", "execed"}
      => /\ Happened(p, "write", TRUE)
         /\ Happened(p, "verify", TRUE)
         /\ Did(p, "commit")

(***************************************************************************)
(* C5                                                                      *)
(***************************************************************************)
\* C5: once runAutoUpdate has a valid local version A and a valid remote
\* version B, the download step has been started if and only if A precedes B
\* in semantic-version order; otherwise nil was returned after the VERSION
\* request alone, with no step of the replacement taken and no file changed.
C5_UpdateIffOlder ==
  \A p \in Procs :
    /\ pc[p] \notin {"off", "start", "run", "fetch", "compare"}
    /\ VersionFetched(p)
    /\ IsValid(u[p].CurrentVersion)
    /\ IsValid(TrimmedRemote)
    => /\ Did(p, "downloadUpdate") <=> Precedes(u[p].CurrentVersion, TrimmedRemote)
       /\ ~Precedes(u[p].CurrentVersion, TrimmedRemote)
            => /\ pc[p] = "returned"
               /\ ret[p] = Nil
               /\ Len(net[p]) = 1
               /\ trace[p] = <<>>
               /\ FilesUntouched

\* A release that is ahead of the bucket's pre-release of the same number
\* has returned nil without downloading.
C5_Witness ==
  \E p \in Procs :
    /\ pc[p] = "returned"
    /\ ret[p] = Nil
    /\ VersionFetched(p)
    /\ u[p].CurrentVersion = Ver(MaxMinor)
    /\ TrimmedRemote = Ver(MaxMinor) \o <<"-", "r", "c">>

(***************************************************************************)
(* C6                                                                      *)
(***************************************************************************)
\* The steps of an attempt that reaches the continuation, in order.
SuccessOps(p) ==
  <<"downloadUpdate", "stat", "backup", "open", "write", "reopen", "verify">>
  \o (IF IsArchive(p) THEN <<"extract">> ELSE <<>>)
  \o <<"chmod", "commit", "exec">>

C7_InvalidRemoteStops ==
  \A p \in Procs :
    VersionFetched(p) /\ ~IsValid(TrimmedRemote)
      => /\ pc[p] = "returned"
         /\ ret[p] = <<"remote version is invalid: ">> \o TrimmedRemote
         /\ Len(net[p]) = 1
         /\ trace[p] = <<>>
         /\ FilesUntouched

\* The bucket's VERSION object held "garbaga" and the cycle has ended.
C7_Witness ==
  \E p \in Procs :
    /\ pc[p] = "returned"
    /\ VersionFetched(p)
    /\ remote.version = <<"g", "a", "r", "b", "a", "g", "a">>

(***************************************************************************)
(* C8                                                                      *)
(***************************************************************************)
\* C8: with S3UPDATE_DISABLED set to a non-empty value, AutoUpdate makes no
\* request and changes no file, and once it has run it has returned nil,
\* whatever the configuration.
C8_OptOut ==
  \A p \in Procs :
    S3UPDATE_DISABLED[p] # <<>>
      => /\ net[p] = <<>>
         /\ trace[p] = <<>>
         /\ FilesUntouched
         /\ pc[p] = "start" \/ (pc[p] = "returned" /\ ret[p] = Nil)

\* AutoUpdate has returned with the toggle set to "false" and a
\* configuration that validate rejects.
C8_Witness ==
  \E p \in Procs :
    /\ pc[p] = "returned"
    /\ S3UPDATE_DISABLED[p] = <<"false">>
    /\ validate(u[p]) # Nil

(***************************************************************************)
(* C9                                                                      *)
(***************************************************************************)
\* C9: when the restore rename failed, the returned error differs from the
\* error that the same failure returns after a restore that succeeded (the
\* originating error).
C9_RestoreFailureDistinct ==
  \A p \in Procs :
    pc[p] = "returned" /\ Happened(p, "restore", FALSE) => ret[p] # cause[p]

(***************************************************************************)
(* C10                                                                     *)
(***************************************************************************)
\* C10: when re-executing the new binary failed, AutoUpdate has returned that
\* error to its caller, the target holds the new binary, whose digest was
\* verified, no restore was performed and the process was not ended.
C10_RelaunchFailed ==
  \A p \in Procs :
    Happened(p, "exec", FALSE)
      => /\ pc[p] = "returned"
         /\ ret[p] = ErrExec
         /\ Content(Target) = Installed(p)
         /\ checksumRespBody[p] = <<Md5Hex(remote.artifact)>>
         /\ Did(p, "commit")
         /\ ~Did(p, "restore")

\* The re-execution of an extracted archive failed.
C10_Witness ==
  \E p \in Procs :
    /\ Happened(p, "exec", FALSE)
    /\ IsArchive(p)
    /\ Content(Target) = "newbin"
(***************************************************************************)
(* C11                                                                     *)
(***************************************************************************)
\* The files are as they were when p was last started.
FilesAsStarted(p) == dir = started[p].dir /\ inode = started[p].inode

\* C11: a cycle run by a binary that a successful update installed and that
\* reports the bucket's version as its own, with the bucket unchanged, makes
\* no artifact or checksum request, takes no step of the replacement, leaves
\* every file as it was at its start, never exits or re-executes, and when it
\* returns after receiving the VERSION object it returns nil (no update
\* needed).
C11_SecondRunNoOp ==
  \A p \in Procs :
    started[p].n >= 2 /\ u[p].CurrentVersion = TrimmedRemote
      => /\ FilesAsStarted(p)
         /\ trace[p] = <<>>
         /\ \A i \in 1..Len(net[p]) : net[p][i].obj = "VERSION"
         /\ Len(net[p]) <= 1
         /\ pc[p] \in {"start", "run", "fetch", "compare", "returned"}
         /\ pc[p] = "returned" /\ VersionFetched(p) => ret[p] = Nil

\* The second cycle, run by the installed binary reporting the bucket's
\* version, has fetched VERSION and returned.
C11_Witness ==
  \E p \in Procs :
    /\ started[p].n = 2
    /\ u[p].CurrentVersion = TrimmedRemote
    /\ VersionFetched(p)
    /\ pc[p] = "returned"
    /\ Content(Target) = Installed(p)
(***************************************************************************)
(* C12                                                                     *)
(***************************************************************************)
\* The request of p for the object was answered / failed.
Answered(p, obj) == \E i \in 1..Len(net[p]) : net[p][i].obj = obj /\ net[p][i].ok

Refused(p, obj) == \E i \in 1..Len(net[p]) : net[p][i].obj = obj /\ ~net[p][i].ok

\* The steps of downloadUpdate that act on the files.
FileOps == {"backup", "open", "write", "reopen", "digest", "verify", "extract",
            "chmod", "commit", "restore", "exec"}

\* C12: a step on the files (the backup rename, a write to the target, and
\* every later step) is taken, and a file differs from the start, only after
\* the artifact request and the retrieval of the checksum object have both
\* succeeded; when either of them fails the attempt has returned the
\* transport error with no step on the files taken, the target untouched and
\* no backup created.
C12_FetchBeforeFiles ==
  /\ ~FilesUntouched
       => \E p \in Procs : Answered(p, "artifact") /\ Answered(p, "checksum")
  /\ \A p \in Procs :
    /\ (\E i \in 1..Len(trace[p]) : trace[p][i].op \in FileOps)
         => Answered(p, "artifact") /\ Answered(p, "checksum")
    /\ Refused(p, "artifact") \/ Refused(p, "checksum")
         => /\ pc[p] = "returned"
            /\ ret[p] = ErrTransport
            /\ Ops(p) = <<"downloadUpdate">>
            /\ FilesUntouched
            /\ ~Exists(Backup)

\* The checksum request failed after the artifact request was answered.
C12_Witness ==
  \E p \in Procs :
    /\ Answered(p, "artifact")
    /\ Refused(p, "checksum")
    /\ pc[p] = "returned"
(***************************************************************************)
(* C13                                                                     *)
(***************************************************************************)
\* C13: an attempt on an archive URL whose extraction failed (at the open,
\* the gzip header, the first tar entry, its type, its reading, or the
\* re-creation or writing of the file) has run the restore step and returned
\* the error, and ends with the original content at the target and no backup
\* left.  Attempts in which the backup was made and the restoring rename then
\* failed by itself are left aside.
C13_ExtractionFailureRestores ==
  \A p \in Procs :
    ( /\ Ended(p)
      /\ IsArchive(p)
      /\ Happened(p, "extract", FALSE)
      /\ ~(Happened(p, "backup", TRUE) /\ Happened(p, "restore", FALSE)) )
      => /\ Did(p, "restore")
         /\ pc[p] = "returned"
         /\ ret[p] # Nil
         /\ Content(Target) = "orig"
         /\ ~Exists(Backup)
(***************************************************************************)
(* C14                                                                     *)
(***************************************************************************)
\* C14: the digest comparison takes the checksum payload as a trimmed hex
\* digest: it accepts the written file exactly when the payload with its
\* surrounding whitespace removed is the lowercase hex digest of the
\* downloaded artifact, so a payload with a trailing newline is a match.
C14_TrimmedDigest ==
  \A p \in Procs :
    Did(p, "verify")
      => ( Happened(p, "verify", TRUE)
             <=> TrimSpace(checksumRespBody[p]) = <<Md5Hex(resp[p])>> )
(***************************************************************************)
(* C15                                                                     *)
(***************************************************************************)
\* C15: an attempt that found no file at the resolved target path when it
\* reached the backup step has ended at once without an error, and has
\* changed nothing in the filesystem: no backup exists, no file was created
\* or written at the target path, no inode was added or altered, no later
\* step was taken and no continuation as the new binary was attempted.
C15_QuietAbort ==
  \A p \in Procs :
    Happened(p, "stat", FALSE)
      => /\ pc[p] = "exited"
         /\ ret[p] = Nil
         /\ ~Exists(Backup)
         /\ ~Exists(Target)
         /\ inode = started[p].inode
         /\ Ops(p) = <<"downloadUpdate", "stat">>
         /\ ~Did(p, "exec")

\* The target vanished between its resolution and os.Stat, and the attempt
\* ended.
C15_Witness ==
  \E p \in Procs :
    /\ Happened(p, "stat", FALSE)
    /\ Answered(p, "checksum")
    /\ Ended(p)
(***************************************************************************)
(* C16                                                                     *)
(***************************************************************************)
\* One of the fields that a configuration must carry is empty.
RequiredFieldEmpty(cfg) ==
  cfg.CurrentVersion = <<>> \/ cfg.S3Bucket = <<>> \/ cfg.S3ReleaseKey = <<>>

\* C16: the validation of the configuration and of the local version come
\* before the first network request: a request is only ever made with no
\* required field empty and a valid current version, and a cycle that is not
\* disabled and has an empty required field or an invalid current version
\* makes no request, changes no file, and once past the two validations has
\* returned an error.
C16_ValidateBeforeNetwork ==
  \A p \in Procs :
    /\ net[p] # <<>>
         => ~RequiredFieldEmpty(u[p]) /\ IsValid(u[p].CurrentVersion)
    /\ started[p].n > 0 /\ S3UPDATE_DISABLED[p] = <<>>
         /\ (RequiredFieldEmpty(u[p]) \/ ~IsValid(u[p].CurrentVersion))
         => /\ net[p] = <<>>
            /\ trace[p] = <<>>
            /\ FilesUntouched
            /\ pc[p] \in {"start", "run", "returned"}
            /\ pc[p] = "returned" => ret[p] # Nil

\* A cycle with every required field set and a current version that is not
\* a semantic version (no leading "v") has returned.
C16_Witness ==
  \E p \in Procs :
    /\ pc[p] = "returned"
    /\ ret[p] = <<"invalid local version">>
    /\ ~RequiredFieldEmpty(u[p])
(***************************************************************************)
(* C17                                                                     *)
(***************************************************************************)
\* The cycle of p returned an error before resolving the remote version.
Rejected(p) == pc[p] = "returned" /\ ret[p] # Nil /\ net[p] = <<>>

\* C17: once a cycle that is not disabled has validated, it goes on to the
\* version resolution whenever the current version is valid and the bucket
\* and release-key template are non-empty, and it is rejected with an error
\* whenever one of these three is empty; so the checksum-key template, the
\* verbosity flag and the version-key field have no effect on the outcome.
C17_ValidationFields ==
  \A p \in Procs :
    started[p].n > 0 /\ S3UPDATE_DISABLED[p] = <<>> /\ pc[p] # "start"
      => /\ IsValid(u[p].CurrentVersion) /\ ~RequiredFieldEmpty(u[p])
              => ~Rejected(p)
         /\ RequiredFieldEmpty(u[p]) => Rejected(p)
(***************************************************************************)
(* C18                                                                     *)
(***************************************************************************)
\* The original content is neither at the target nor at the backup path.
OriginalLost == Content(Target) # "orig" /\ Content(Backup) # "orig"

\* No instance has reached the step deleting the backup.
NoCommit == \A p \in Procs : ~Did(p, "commit")

\* C18: before any commit, the original content is at neither path only
\* when a backup rename failed or when both instances have taken their
\* backup step; so an instance running alone with no failing filesystem
\* step never reaches such a state, and two instances can.
C18_LossNeedsRaceOrFailure ==
  OriginalLost /\ NoCommit
    => \/ \E p \in Procs : Happened(p, "backup", FALSE)
       \/ \A p \in Procs : Did(p, "backup")

\* With no step of either instance having failed, the backup rename of one
\* instance has replaced the backup made by the other, and the original
\* content is at neither path before any commit.
C18_Witness ==
  /\ OriginalLost
  /\ NoCommit
  /\ \A p \in Procs : Happened(p, "backup", TRUE)
  /\ \A p \in Procs : \A i \in 1..Len(trace[p]) : trace[p][i].ok
(***************************************************************************)
(* C19                                                                     *)
(***************************************************************************)
\* The positions of the step op in the steps p has taken.
At(p, op) == {i \in 1..Len(trace[p]) : trace[p][i].op = op}

\* The restore step is taken at most once, after the backup step of the
\* attempt and never after the step deleting the backup; the path that takes
\* it comes straight from a failed step and returns that step's error right
\* after it, so that no later step and no second restore follows.
RestoreAtMostOnce ==
  \A p \in Procs :
    /\ Cardinality(At(p, "restore")) <= 1
    /\ \A i \in At(p, "restore") :
         /\ \E j \in At(p, "backup") : j < i
         /\ \A j \in At(p, "commit") : i < j
         /\ i = Len(trace[p])
         /\ ~trace[p][i - 1].ok
         /\ pc[p] = "returned"
         /\ ret[p] = cause[p]
         /\ ret[p] # Nil
    /\ pc[p] = "restore"
         => /\ At(p, "restore") = {}
            /\ At(p, "backup") # {}
            /\ At(p, "commit") = {}
            /\ cause[p] # Nil
            /\ ~trace[p][Len(trace[p])].ok

\* Every attempt that returned an error after it made the backup and before
\* the step deleting the backup has taken the restore step.
EveryFailureRestores ==
  \A p \in Procs :
    /\ pc[p] = "returned" /\ ret[p] # Nil
    /\ Happened(p, "backup", TRUE) /\ At(p, "commit") = {}
    => At(p, "restore") # {}

\* C19: in every attempt the restore step is taken at most once, only after
\* the backup step of the same attempt and never after the backup was
\* deleted, and every failure path takes its one restore and returns at once
\* without reaching the restore of a later step.
C19_RestoreDiscipline == RestoreAtMostOnce /\ EveryFailureRestores
====
